---------------------------- MODULE Spec2Model ----------------------------
(***************************************************************************)
(* Model of the SupplyAI web client: the file validator and the upload     *)
(* flow of components/FileUploader.jsx (src/unnamed/part_000) and the chat *)
(* flow of components/ChatPage.jsx.                                        *)
(*                                                                         *)
(* JavaScript strings are sequences of pieces: a file name is a sequence   *)
(* of one-character strings, a fixed text of the source is one piece, and  *)
(* string concatenation is \o.  The empty string is << >>.                 *)
(* React state is the variables below; every event callback (a user        *)
(* action, an interval tick, a timeout, the continuation of an await) runs *)
(* to completion and the component re-renders before the next one.         *)
(***************************************************************************)
EXTENDS Integers, Sequences, FiniteSets, Bags, TLC

VARIABLES
    files,           \* FileUploader: useState([]) selection
    message,         \* FileUploader: useState({text, type})
    isUploading,     \* FileUploader: useState(false)
    uploadProgress,  \* FileUploader: useState(0)
    calls,           \* FileUploader: the bag of live handleSubmit invocations
    messages,        \* ChatPage: useState([greeting]) transcript
    input,           \* ChatPage: useState("") input buffer
    loading,         \* ChatPage: useState(false)
    asks,            \* ChatPage: the sendMessage invocations awaiting askQuestion
    askLog,          \* history: one entry per request issued, with its outcome
    fileList,        \* validator harness: the input file list
    outcome,         \* validator harness: what validateFiles returned
    event            \* history: the callback that ran last (validator harness, ChatPage)

vars == <<files, message, isUploading, uploadProgress, calls, messages, input,
          loading, asks, askLog, fileList, outcome, event>>

uploaderVars == <<files, message, isUploading, uploadProgress, calls>>
chatVars == <<messages, input, loading, asks, askLog>>
validatorVars == <<fileList, outcome>>

-----------------------------------------------------------------------------
(* Bounds of the model *)

\* longest file list handed to the validator or picked / dropped at once
MaxBatch == 2
\* handleSubmit invocations alive at once in a FileUploader instance: awaiting
\* the response, or holding an interval or a timeout that can still fire
MaxLive == 2
\* askQuestion requests issued per ChatPage instance
MaxSends == 3

-----------------------------------------------------------------------------
(* JavaScript values *)

\* an absent property (undefined)
Undefined == [present |-> FALSE, val |-> << >>]
Val(v) == [present |-> TRUE, val |-> v]
\* truthiness of an optional string or array property: "" is falsy, [] is truthy
TruthyStr(v) == v.present /\ v.val # << >>
TruthyArr(v) == v.present

\* a || b for optional string properties a and b
OrElse(a, b) == IF TruthyStr(a) THEN a ELSE b

RECURSIVE SeqsUpTo(_, _)
SeqsUpTo(S, n) ==
    IF n = 0 THEN {<< >>}
    ELSE LET shorter == SeqsUpTo(S, n - 1)
         IN  shorter \cup {Append(s, x) : s \in shorter, x \in S}

UpperToLower ==
    [c \in {"A", "B", "C", "D", "E", "F", "G", "H", "I", "J", "K", "L", "M",
            "N", "O", "P", "Q", "R", "S", "T", "U", "V", "W", "X", "Y", "Z"} |->
        CASE c = "A" -> "a" [] c = "B" -> "b" [] c = "C" -> "c" [] c = "D" -> "d"
          [] c = "E" -> "e" [] c = "F" -> "f" [] c = "G" -> "g" [] c = "H" -> "h"
          [] c = "I" -> "i" [] c = "J" -> "j" [] c = "K" -> "k" [] c = "L" -> "l"
          [] c = "M" -> "m" [] c = "N" -> "n" [] c = "O" -> "o" [] c = "P" -> "p"
          [] c = "Q" -> "q" [] c = "R" -> "r" [] c = "S" -> "s" [] c = "T" -> "t"
          [] c = "U" -> "u" [] c = "V" -> "v" [] c = "W" -> "w" [] c = "X" -> "x"
          [] c = "Y" -> "y" [] c = "Z" -> "z"]

\* String.prototype.toLowerCase
toLowerCase(s) ==
    [i \in DOMAIN s |-> IF s[i] \in DOMAIN UpperToLower THEN UpperToLower[s[i]] ELSE s[i]]

\* String.prototype.split(sep) for a one-character separator
RECURSIVE split(_, _)
split(s, sep) ==
    IF \A i \in DOMAIN s : s[i] # sep THEN <<s>>
    ELSE LET i == CHOOSE k \in DOMAIN s : s[k] = sep /\ \A j \in 1..(k - 1) : s[j] # sep
         IN  <<SubSeq(s, 1, i - 1)>> \o split(SubSeq(s, i + 1, Len(s)), sep)

\* Array.prototype.pop: the last element
pop(a) == a[Len(a)]

\* Array.prototype.join(sep) of an array of strings
RECURSIVE join(_, _)
join(a, sep) ==
    IF a = << >> THEN << >>
    ELSE IF Len(a) = 1 THEN a[1]
    ELSE a[1] \o sep \o join(Tail(a), sep)

\* Array.prototype.includes
includes(a, x) == \E i \in DOMAIN a : a[i] = x

\* s occurs in t as a contiguous run of pieces
Contains(t, s) ==
    \E i \in 0..(Len(t) - Len(s)) : SubSeq(t, i + 1, i + Len(s)) = s

-----------------------------------------------------------------------------
(* FileUploader: the validator *)

allowedTypes ==
    << <<".", "p", "d", "f">>, <<".", "t", "x", "t">>, <<".", "d", "o", "c", "x">>,
       <<".", "d", "o", "c">>, <<".", "c", "s", "v">>, <<".", "m", "d">> >>

maxFileSize == 10 * 1024 * 1024

InvalidTypeText == <<" - Invalid file type">>
TooLargeText == <<" - File too large (max 10MB)">>

\* const extension = "." + file.name.split(".").pop().toLowerCase()
extensionOf(file) == <<".">> \o toLowerCase(pop(split(file.name, ".")))

\* the body of the forEach callback: the lists after one more file
validateOne(acc, file) ==
    IF ~includes(allowedTypes, extensionOf(file))
    THEN [acc EXCEPT !.invalidFiles = Append(@, file.name \o InvalidTypeText)]
    ELSE IF file.size > maxFileSize
    THEN [acc EXCEPT !.invalidFiles = Append(@, file.name \o TooLargeText)]
    ELSE [acc EXCEPT !.validFiles = Append(@, file)]

RECURSIVE forEachValidate(_, _)
forEachValidate(acc, list) ==
    IF list = << >> THEN acc
    ELSE forEachValidate(validateOne(acc, Head(list)), Tail(list))

validateFiles(list) ==
    forEachValidate([validFiles |-> << >>, invalidFiles |-> << >>], list)


-----------------------------------------------------------------------------
(* Initial values of the three components *)

NoMessage == [text |-> << >>, type |-> << >>]

GreetingText ==
    <<"Hello! I'm your supplier recommendation assistant. Ask me about finding the best suppliers for your business needs.">>

Greeting == [sender |-> "bot", text |-> GreetingText, sources |-> Undefined]

NoOutcome == [validFiles |-> << >>, invalidFiles |-> << >>]

UploaderInit ==
    /\ files = << >>
    /\ message = NoMessage
    /\ isUploading = FALSE
    /\ uploadProgress = 0
    /\ calls = EmptyBag

ChatInit ==
    /\ messages = <<Greeting>>
    /\ input = << >>
    /\ loading = FALSE
    /\ asks = {}
    /\ askLog = << >>

ValidatorInit ==
    /\ fileList = << >>
    /\ outcome = NoOutcome

-----------------------------------------------------------------------------
(* The validator on its own: validateFiles applied to every short file list *)

CandidateNames ==
    { <<"a", ".", "p", "d", "f">>,
      <<"b", ".", "T", "x", "T">>,
      <<"c", ".", "d", "o", "c", "x">>,
      <<"d", ".", "d", "o", "c">>,
      <<"e", ".", "c", "s", "v">>,
      <<"f", ".", "t", "a", "r", ".", "m", "d">>,
      <<"g", ".", "e", "x", "e">>,
      <<"h", ".", "p", "d", "f", ".", "e", "x", "e">>,
      <<"i", ".">>,
      <<".", "m", "d">>,
      <<"p", "d", "f">> }

CandidateSizes == {2 * 1024 * 1024, maxFileSize, maxFileSize + 1}

CandidateFiles == [name : CandidateNames, size : CandidateSizes]

InitValidate ==
    /\ UploaderInit
    /\ ChatInit
    /\ fileList \in SeqsUpTo(CandidateFiles, MaxBatch)
    /\ outcome = NoOutcome
    /\ event = [op |-> "init"]

RunValidate ==
    /\ event.op = "init"
    /\ outcome' = validateFiles(fileList)
    /\ event' = [op |-> "validateFiles"]
    /\ UNCHANGED <<fileList, uploaderVars, chatVars>>

NextValidate == RunValidate

SpecValidate == InitValidate /\ [][NextValidate]_vars

-----------------------------------------------------------------------------
(* FileUploader: the upload flow *)

\* setMessage({text: `Invalid files: ${invalidFiles.join(", ")}`, type: "error"})
InvalidFilesMessage(invalidFiles) ==
    [text |-> <<"Invalid files: ">> \o join(invalidFiles, <<", ">>), type |-> <<"error">>]

PleaseSelectText == <<"Please select files to upload">>
FallbackErrorText == <<"Error uploading files. Please try a smaller file.">>
CancelledText == <<"Upload cancelled">>

\* An invocation of handleSubmit lives on after its first await as a closure:
\* state is "pending" while the request is unanswered, "succeeded" while the
\* 2000 ms timeout is pending, "failed" after the catch block; interval is
\* whether progressInterval is set and not cleared; formData is the request body.
\* An invocation with nothing left to run is dropped from the bag.
Put(bag, c) == bag (+) SetToBag({c})
Take(bag, c) == bag (-) SetToBag({c})

\* onChange of the file input
handleFilesChange(list) ==
    IF Len(list) = 0
    THEN UNCHANGED uploaderVars
    ELSE LET v == validateFiles(list)
         IN  /\ message' = IF Len(v.invalidFiles) > 0
                           THEN InvalidFilesMessage(v.invalidFiles)
                           ELSE NoMessage
             /\ files' = v.validFiles
             /\ UNCHANGED <<isUploading, uploadProgress, calls>>

\* handleDrop as it would be if a rejected file blocked the selection
handleDropBlocking(list) ==
    IF Len(list) > 0
    THEN LET v == validateFiles(list)
         IN  /\ message' = IF Len(v.invalidFiles) > 0
                           THEN InvalidFilesMessage(v.invalidFiles)
                           ELSE message
             /\ files' = IF Len(v.invalidFiles) > 0 THEN files ELSE v.validFiles
             /\ UNCHANGED <<isUploading, uploadProgress, calls>>
    ELSE UNCHANGED uploaderVars

\* onDrop of the drop label
handleDrop(list) ==
    IF Len(list) > 0
    THEN LET v == validateFiles(list)
         IN  /\ message' = IF Len(v.invalidFiles) > 0
                           THEN InvalidFilesMessage(v.invalidFiles)
                           ELSE message
             /\ files' = v.validFiles
             /\ UNCHANGED <<isUploading, uploadProgress, calls>>
    ELSE UNCHANGED uploaderVars

\* setFiles((prev) => prev.filter((_, i) => i !== index)), index counted from 1 here
removeFile(index) ==
    /\ files' = [k \in 1..(Len(files) - 1) |-> IF k < index THEN files[k] ELSE files[k + 1]]
    /\ UNCHANGED <<message, isUploading, uploadProgress, calls>>

\* onClick of Clear All: setFiles([])
clearAll ==
    /\ files' = << >>
    /\ UNCHANGED <<message, isUploading, uploadProgress, calls>>

\* handleSubmit up to its await: the request is issued and the interval started
handleSubmit ==
    IF Len(files) = 0
    THEN /\ message' = [text |-> PleaseSelectText, type |-> <<"error">>]
         /\ UNCHANGED <<files, isUploading, uploadProgress, calls>>
    ELSE /\ isUploading' = TRUE
         /\ uploadProgress' = 0
         /\ message' = NoMessage
         /\ calls' = Put(calls, [state |-> "pending", interval |-> TRUE, formData |-> files])
         /\ UNCHANGED files

\* clearInterval(progressInterval) of invocation c
clearInterval(c) ==
    IF c.state = "failed"
    THEN Take(calls, c)
    ELSE Put(Take(calls, c), [c EXCEPT !.interval = FALSE])

\* the callback of setInterval(..., 300) of invocation c
progressTick(c) ==
    /\ uploadProgress' = IF uploadProgress >= 80 THEN 80 ELSE uploadProgress + 5
    /\ calls' = IF uploadProgress >= 80 THEN clearInterval(c) ELSE calls
    /\ UNCHANGED <<files, message, isUploading>>

\* submitResolved as it would be with a fixed success text and no setFiles([])
submitResolvedKeepsFiles(c, response) ==
    /\ uploadProgress' = 100
    /\ message' = [text |-> <<"Files uploaded successfully">>, type |-> <<"success">>]
    /\ calls' = Put(Take(calls, c), [state |-> "succeeded", interval |-> FALSE, formData |-> << >>])
    /\ isUploading' = FALSE
    /\ UNCHANGED files

\* handleSubmit of invocation c after its await, the request answered with response
submitResolved(c, response) ==
    /\ uploadProgress' = 100
    /\ message' = [text |-> response.data.message, type |-> <<"success">>]
    /\ files' = << >>
    /\ calls' = Put(Take(calls, c), [state |-> "succeeded", interval |-> FALSE, formData |-> << >>])
    /\ isUploading' = FALSE

\* errorText as it would be with the message field preferred to the detail field
errorTextMessageFirst(error) ==
    LET detail == IF error.hasResponse THEN error.data.detail ELSE Undefined
        msg == IF error.hasResponse THEN error.data.message ELSE Undefined
    IN  OrElse(OrElse(msg, detail), Val(FallbackErrorText)).val

\* error.response?.data?.detail || error.response?.data?.message || "Error uploading files. ..."
errorText(error) ==
    LET detail == IF error.hasResponse THEN error.data.detail ELSE Undefined
        msg == IF error.hasResponse THEN error.data.message ELSE Undefined
    IN  OrElse(OrElse(detail, msg), Val(FallbackErrorText)).val

\* handleSubmit of invocation c after its await, the request failed with error
submitRejected(c, error) ==
    /\ uploadProgress' = 0
    /\ message' = [text |-> errorText(error), type |-> <<"error">>]
    /\ calls' = IF c.interval
                THEN Put(Take(calls, c), [state |-> "failed", interval |-> TRUE, formData |-> << >>])
                ELSE Take(calls, c)
    /\ isUploading' = FALSE
    /\ UNCHANGED files

\* the callback of setTimeout(() => setUploadProgress(0), 2000) of invocation c
resetProgress(c) ==
    /\ uploadProgress' = 0
    /\ calls' = Take(calls, c)
    /\ UNCHANGED <<files, message, isUploading>>

cancelUpload ==
    /\ isUploading' = FALSE
    /\ uploadProgress' = 0
    /\ message' = [text |-> CancelledText, type |-> <<"warning">>]
    /\ UNCHANGED <<files, calls>>

-----------------------------------------------------------------------------
(* FileUploader: the events the rendered view and the environment deliver *)

GoodPdf == [name |-> <<"a", ".", "p", "d", "f">>, size |-> 2 * 1024 * 1024]
GoodMd == [name |-> <<"n", ".", "M", "D">>, size |-> maxFileSize]
BadExe == [name |-> <<"g", ".", "e", "x", "e">>, size |-> 2 * 1024 * 1024]
BigDocx == [name |-> <<"c", ".", "d", "o", "c", "x">>, size |-> 11 * 1024 * 1024]

\* the file lists picked or dropped: none, accepted ones, a rejected one, and the
\* mixed batch of a 2 MB .pdf, an .exe and an 11 MB .docx
Batches ==
    {<< >>, <<GoodMd, GoodPdf>>, <<BadExe>>, <<GoodPdf, BadExe, BigDocx>>}

SuccessResponses ==
    {[data |-> [message |-> <<"Files uploaded successfully">>]],
     [data |-> [message |-> <<"Knowledge base reset">>]]}

DetailValues == {Undefined, Val(<< >>), Val(<<"disk full">>)}
MessageValues == {Undefined, Val(<<"bad request">>)}

\* a rejection with no response (network error, timeout) or with a response body
ErrorValues ==
    {[hasResponse |-> FALSE, data |-> [detail |-> Undefined, message |-> Undefined]]}
    \cup {[hasResponse |-> TRUE, data |-> [detail |-> d, message |-> m]] :
             d \in DetailValues, m \in MessageValues}

\* <input type="file" disabled={isUploading} onChange={handleFilesChange}>
FilesChange ==
    /\ ~isUploading
    /\ \E list \in Batches :
          /\ handleFilesChange(list)
    /\ UNCHANGED <<chatVars, validatorVars, event>>

\* <div className="file-input-label" onDrop={handleDrop}>
Drop ==
    /\ \E list \in Batches :
          /\ handleDrop(list)
    /\ UNCHANGED <<chatVars, validatorVars, event>>

\* <button onClick={() => removeFile(index)} disabled={isUploading}> of a listed file
RemoveFile ==
    /\ ~isUploading
    /\ \E index \in 1..Len(files) :
          /\ removeFile(index)
    /\ UNCHANGED <<chatVars, validatorVars, event>>

\* <button onClick={() => setFiles([])} disabled={isUploading}>, rendered when files.length > 0
ClearAll ==
    /\ Len(files) > 0
    /\ ~isUploading
    /\ clearAll
    /\ UNCHANGED <<chatVars, validatorVars, event>>

\* <button onClick={handleSubmit} disabled={isUploading || files.length === 0}>
Submit ==
    /\ ~(isUploading \/ Len(files) = 0)
    /\ BagCardinality(calls) < MaxLive
    /\ handleSubmit
    /\ UNCHANGED <<chatVars, validatorVars, event>>

\* <button onClick={cancelUpload}>, rendered when isUploading && uploadProgress < 100
Cancel ==
    /\ isUploading
    /\ uploadProgress < 100
    /\ cancelUpload
    /\ UNCHANGED <<chatVars, validatorVars, event>>

\* an interval that was set and not cleared fires
Tick ==
    /\ \E c \in BagToSet(calls) :
          /\ c.interval
          /\ progressTick(c)
    /\ UNCHANGED <<chatVars, validatorVars, event>>

\* the backend answers the request of an invocation
UploadResolved ==
    /\ \E c \in BagToSet(calls), response \in SuccessResponses :
          /\ c.state = "pending"
          /\ submitResolved(c, response)
    /\ UNCHANGED <<chatVars, validatorVars, event>>

\* the request of an invocation fails
UploadRejected ==
    /\ \E c \in BagToSet(calls), error \in ErrorValues :
          /\ c.state = "pending"
          /\ submitRejected(c, error)
    /\ UNCHANGED <<chatVars, validatorVars, event>>

\* the 2000 ms timeout of an invocation fires
ResetTimeout ==
    /\ \E c \in BagToSet(calls) :
          /\ c.state = "succeeded"
          /\ resetProgress(c)
    /\ UNCHANGED <<chatVars, validatorVars, event>>

Init ==
    /\ UploaderInit
    /\ ChatInit
    /\ ValidatorInit
    /\ event = [op |-> "init"]

Next ==
    \/ FilesChange
    \/ Drop
    \/ RemoveFile
    \/ ClearAll
    \/ Submit
    \/ Cancel
    \/ Tick
    \/ UploadResolved
    \/ UploadRejected
    \/ ResetTimeout

Spec == Init /\ [][Next]_vars

-----------------------------------------------------------------------------
(* ChatPage: the chat flow.  The timestamp of a turn (new Date()) is left out. *)

Whitespace == {" ", "\t"}

\* String.prototype.trim
RECURSIVE trim(_)
trim(s) ==
    IF s = << >> THEN s
    ELSE IF Head(s) \in Whitespace THEN trim(Tail(s))
    ELSE IF s[Len(s)] \in Whitespace THEN trim(SubSeq(s, 1, Len(s) - 1))
    ELSE s

ApologyText ==
    <<"Sorry, I encountered an error while processing your request. Please try again.">>

\* sendMessage as it would be without the trim: only the empty input is refused
sendMessageNoTrim ==
    IF input = << >>
    THEN UNCHANGED chatVars
    ELSE /\ messages' = Append(messages, [sender |-> "user", text |-> input, sources |-> Undefined])
         /\ input' = << >>
         /\ loading' = TRUE
         /\ asks' = asks \cup {[n |-> Len(askLog) + 1, question |-> input]}
         /\ askLog' = Append(askLog, [question |-> input, kind |-> "pending", res |-> << >>])

\* sendMessage up to its await: the user turn is appended and the request issued
sendMessage ==
    IF trim(input) = << >>
    THEN UNCHANGED chatVars
    ELSE /\ messages' = Append(messages, [sender |-> "user", text |-> input, sources |-> Undefined])
         /\ input' = << >>
         /\ loading' = TRUE
         /\ asks' = asks \cup {[n |-> Len(askLog) + 1, question |-> input]}
         /\ askLog' = Append(askLog, [question |-> input, kind |-> "pending", res |-> << >>])

\* askResolved as it would be with the sources of the response dropped
askResolvedNoSources(a, res) ==
    /\ messages' = Append(messages, [sender |-> "bot", text |-> res.data.answer, sources |-> Val(<< >>)])
    /\ loading' = FALSE
    /\ asks' = asks \ {a}
    /\ askLog' = [askLog EXCEPT ![a.n] = [@ EXCEPT !.kind = "answered", !.res = res]]
    /\ UNCHANGED input

\* sendMessage of request a after its await, askQuestion answered with res
askResolved(a, res) ==
    /\ messages' = Append(messages,
                      [sender |-> "bot", text |-> res.data.answer,
                       sources |-> IF TruthyArr(res.data.sources) THEN res.data.sources ELSE Val(<< >>)])
    /\ loading' = FALSE
    /\ asks' = asks \ {a}
    /\ askLog' = [askLog EXCEPT ![a.n] = [@ EXCEPT !.kind = "answered", !.res = res]]
    /\ UNCHANGED input

\* askRejected as it would be without the finally block: loading is left set
askRejectedKeepsLoading(a) ==
    /\ messages' = Append(messages, [sender |-> "bot", text |-> ApologyText, sources |-> Undefined])
    /\ asks' = asks \ {a}
    /\ askLog' = [askLog EXCEPT ![a.n] = [@ EXCEPT !.kind = "failed"]]
    /\ UNCHANGED <<input, loading>>

\* sendMessage of request a after its await, askQuestion failed
askRejected(a) ==
    /\ messages' = Append(messages, [sender |-> "bot", text |-> ApologyText, sources |-> Undefined])
    /\ loading' = FALSE
    /\ asks' = asks \ {a}
    /\ askLog' = [askLog EXCEPT ![a.n] = [@ EXCEPT !.kind = "failed"]]
    /\ UNCHANGED input

-----------------------------------------------------------------------------
(* ChatPage: the events the rendered view and the environment deliver *)

FindSuppliers == <<"f", "i", "n", "d", " ", "s", "u", "p", "p", "l", "i", "e", "r", "s">>

\* what the user may have in the input field: nothing, blanks, questions
InputTexts ==
    {<< >>, <<" ">>, <<" ", "\t", " ">>, FindSuppliers, <<" ", "h", "i", " ">>}

AskResponses ==
    {[data |-> [answer |-> <<"Acme Ltd is the best match.">>, sources |-> src]] :
        src \in {Undefined, Val(<< >>), Val(<< <<"doc1">>, <<"doc2">> >>)}}

\* <input type="text" onChange={(e) => setInput(e.target.value)} disabled={loading}>
TypeInput ==
    /\ ~loading
    /\ \E text \in InputTexts : input' = text
    /\ event' = [op |-> "setInput"]
    /\ UNCHANGED <<messages, loading, asks, askLog, uploaderVars, validatorVars>>

\* onKeyDown of the input with the Enter key, the input not disabled
PressEnter ==
    /\ ~loading
    /\ trim(input) # << >> => Len(askLog) < MaxSends
    /\ sendMessage
    /\ event' = [op |-> "sendMessage"]
    /\ UNCHANGED <<uploaderVars, validatorVars>>

\* <button onClick={sendMessage} disabled={loading || !input.trim()}>
ClickSend ==
    /\ ~(loading \/ trim(input) = << >>)
    /\ Len(askLog) < MaxSends
    /\ sendMessage
    /\ event' = [op |-> "sendMessage"]
    /\ UNCHANGED <<uploaderVars, validatorVars>>

\* the backend answers a question
AskResolved ==
    /\ \E a \in asks, res \in AskResponses : askResolved(a, res)
    /\ event' = [op |-> "askResolved"]
    /\ UNCHANGED <<uploaderVars, validatorVars>>

\* a question request fails
AskRejected ==
    /\ \E a \in asks : askRejected(a)
    /\ event' = [op |-> "askRejected"]
    /\ UNCHANGED <<uploaderVars, validatorVars>>

NextChat ==
    \/ TypeInput
    \/ PressEnter
    \/ ClickSend
    \/ AskResolved
    \/ AskRejected

SpecChat == Init /\ [][NextChat]_vars

\* every request is settled: the backend answers, or the client gives up on it
\* (network error, timeout: 120000)
SpecChatFair == SpecChat /\ WF_vars(AskResolved \/ AskRejected)

-----------------------------------------------------------------------------
(* Claims about the validator *)

\* the text after the last "." of a name that has one
AfterLastDot(name) ==
    LET last == CHOOSE k \in DOMAIN name : name[k] = "." /\ \A j \in (k + 1)..Len(name) : name[j] # "."
    IN  SubSeq(name, last + 1, Len(name))

AllowedExtensions ==
    { <<"p", "d", "f">>, <<"t", "x", "t">>, <<"d", "o", "c", "x">>, <<"d", "o", "c">>,
      <<"c", "s", "v">>, <<"m", "d">> }

\* the extension of a file is one of the six: a name without "." has no extension
HasAllowedExtension(file) ==
    /\ \E k \in DOMAIN file.name : file.name[k] = "."
    /\ toLowerCase(AfterLastDot(file.name)) \in AllowedExtensions

RuleAccepts(file) == HasAllowedExtension(file) /\ file.size <= 10485760

\* C2: validateFiles rejects a file whose extension (the text after the last ".",
\* lower-cased) is not pdf, txt, docx, doc, csv or md as invalid file type whatever its
\* size, else rejects it as too large when its size exceeds 10,485,760 bytes, else
\* accepts it; the accepted list is the accepted files in input order and every input
\* file is in exactly one of the two lists.
C2_ValidatorRule ==
    event.op = "validateFiles" =>
        /\ outcome.validFiles = SelectSeq(fileList, RuleAccepts)
        /\ Len(outcome.validFiles) + Len(outcome.invalidFiles) = Len(fileList)
        /\ \A i \in DOMAIN fileList :
              LET f == fileList[i]
              IN  /\ ~HasAllowedExtension(f) =>
                        includes(outcome.invalidFiles, f.name \o InvalidTypeText)
                  /\ (HasAllowedExtension(f) /\ f.size > 10485760) =>
                        includes(outcome.invalidFiles, f.name \o TooLargeText)
                  /\ RuleAccepts(f) <=> includes(outcome.validFiles, f)

-----------------------------------------------------------------------------
(* Claims about the upload flow *)

Live == BagToSet(calls)

\* the number of requests issued and not yet answered
InFlight ==
    LET pending == {c \in Live : c.state = "pending"}
    IN  BagCardinality([c \in pending |-> calls[c]])

\* C1: at most one upload request of a FileUploader instance is in flight at any
\* time: no submit starts while the request of an earlier submit is unanswered.
C1_AtMostOneInFlight == InFlight <= 1

\* what the validator accepts, and the reason it gives for what it rejects
Accepted(file) == includes(allowedTypes, extensionOf(file)) /\ ~(file.size > maxFileSize)
ReasonText(file) ==
    IF ~includes(allowedTypes, extensionOf(file)) THEN InvalidTypeText ELSE TooLargeText

SelectionOutcome(list) ==
    /\ files' = SelectSeq(list, Accepted)
    /\ (\E k \in DOMAIN list : ~Accepted(list[k])) =>
          /\ message'.type = <<"error">>
          /\ \A k \in DOMAIN list :
                ~Accepted(list[k]) => Contains(message'.text, list[k].name \o ReasonText(list[k]))

\* C3: picking or dropping a non-empty batch sets the selection to the accepted files
\* of the batch, in order, also when some are rejected; and when any is rejected the
\* message is an error naming every rejected file with its reason.
C3_SelectAdoptsAccepted ==
    [][\A list \in Batches :
          (/\ Len(list) > 0
           /\ UNCHANGED <<isUploading, uploadProgress, calls>>
           /\ (~isUploading /\ handleFilesChange(list)) \/ handleDrop(list))
              => SelectionOutcome(list)]_vars

\* a mixed batch was picked or dropped: one file adopted, two rejected and named
C3_Witness ==
    /\ files = <<GoodPdf>>
    /\ message.type = <<"error">>
    /\ Contains(message.text, BadExe.name \o InvalidTypeText)
    /\ Contains(message.text, BigDocx.name \o TooLargeText)

\* C4: right after a successful response is handled the selection is empty, the
\* percentage is 100 and the message is a success notification with the backend's
\* message text.
C4_SuccessOutcome ==
    [][\A c \in Live, response \in SuccessResponses :
          (c.state = "pending" /\ submitResolved(c, response))
              => /\ files' = << >>
                 /\ uploadProgress' = 100
                 /\ message' = [text |-> response.data.message, type |-> <<"success">>]]_vars

\* a request was answered successfully and its timeout has not fired yet
C4_Witness ==
    /\ \E c \in Live : c.state = "succeeded"
    /\ uploadProgress = 100
    /\ files = << >>
    /\ message = [text |-> <<"Knowledge base reset">>, type |-> <<"success">>]

\* the error text by presence of the fields, and by presence of a non-empty text
TextByPresence(error) ==
    IF error.hasResponse /\ error.data.detail.present THEN error.data.detail.val
    ELSE IF error.hasResponse /\ error.data.message.present THEN error.data.message.val
    ELSE FallbackErrorText

TextByContent(error) ==
    IF error.hasResponse /\ error.data.detail.present /\ error.data.detail.val # << >>
    THEN error.data.detail.val
    ELSE IF error.hasResponse /\ error.data.message.present /\ error.data.message.val # << >>
    THEN error.data.message.val
    ELSE FallbackErrorText

\* C5 as stated: handling a failure leaves the selection as it was and sets an error
\* message that is the body's detail field if present, else its message field if
\* present, else the generic fallback text.
C5_FailureOutcomeByPresence ==
    [][\A c \in Live, error \in ErrorValues :
          (c.state = "pending" /\ submitRejected(c, error))
              => /\ files' = files
                 /\ message' = [text |-> TextByPresence(error), type |-> <<"error">>]]_vars

\* C5 as amended: handling a failure leaves the selection as it was and sets an error
\* message that is the body's detail field if present and not empty, else its message
\* field if present and not empty, else the generic fallback text.
C5_FailureOutcome ==
    [][\A c \in Live, error \in ErrorValues :
          (c.state = "pending" /\ submitRejected(c, error))
              => /\ files' = files
                 /\ message' = [text |-> TextByContent(error), type |-> <<"error">>]]_vars

\* a request failed with a detail text: the text is shown and the selection is kept
C5_Witness ==
    /\ \E c \in Live : c.state = "failed"
    /\ message = [text |-> <<"disk full">>, type |-> <<"error">>]
    /\ files = <<GoodMd, GoodPdf>>

\* C6: on failure the simulation is stopped and the percentage reset to 0: after the
\* failure is handled the percentage is 0, and no later tick of the failed
\* submission's timer changes it.
C6_FailureStopsSimulation ==
    [][/\ \A c \in Live, error \in ErrorValues :
             (c.state = "pending" /\ submitRejected(c, error)) => uploadProgress' = 0
       /\ \A c \in Live :
             (c.state = "failed" /\ c.interval /\ progressTick(c))
                 => uploadProgress' = uploadProgress]_vars

\* the display after cancel: not uploading, the warning shown
CancelledDisplay ==
    /\ ~isUploading
    /\ message = [text |-> CancelledText, type |-> <<"warning">>]

\* C7: cancel while submitting shows not-uploading, percentage 0 and the warning
\* "Upload cancelled", and afterwards neither a timer tick nor the success or failure
\* of the cancelled request changes the percentage, the message or the selection.
C7_CancelIsTerminal ==
    [][/\ Cancel => (CancelledDisplay' /\ uploadProgress' = 0)
       /\ (CancelledDisplay /\ (Tick \/ UploadResolved \/ UploadRejected \/ ResetTimeout))
             => UNCHANGED <<uploadProgress, message, files>>]_vars

\* C8: the percentage is always within 0..100, and at most 80 while a request is
\* outstanding.
C8_ProgressBounds ==
    /\ uploadProgress \in 0..100
    /\ InFlight > 0 => uploadProgress <= 80

-----------------------------------------------------------------------------
(* Claims about the chat flow *)

IsBlank(text) == \A k \in DOMAIN text : text[k] \in Whitespace

\* C9: send with an empty or whitespace-only input is a no-op: no turn is appended,
\* no request is issued, and the loading flag and the input buffer are unchanged.
C9_BlankSendIsNoOp ==
    [][(event'.op = "sendMessage" /\ IsBlank(input))
          => UNCHANGED <<messages, asks, askLog, loading, input>>]_vars

\* send ran on a whitespace-only input after an earlier exchange
C9_Witness ==
    /\ event.op = "sendMessage"
    /\ input = <<" ", "\t", " ">>
    /\ Len(messages) = 3
    /\ asks = {}
    /\ ~loading

IsPrefix(s, t) == Len(s) <= Len(t) /\ SubSeq(t, 1, Len(s)) = s

\* the turns one request accounts for: the user turn, then the bot turn of its outcome
TurnsOf(entry) ==
    << [sender |-> "user", text |-> entry.question, sources |-> Undefined] >>
    \o ( IF entry.kind = "answered"
         THEN << [sender |-> "bot", text |-> entry.res.data.answer,
                  sources |-> IF entry.res.data.sources.present
                              THEN Val(entry.res.data.sources.val)
                              ELSE Val(<< >>)] >>
         ELSE IF entry.kind = "failed"
         THEN << [sender |-> "bot", text |-> ApologyText, sources |-> Undefined] >>
         ELSE << >> )

RECURSIVE TurnsOfAll(_)
TurnsOfAll(log) == IF log = << >> THEN << >> ELSE TurnsOf(Head(log)) \o TurnsOfAll(Tail(log))

TranscriptInSendOrder ==
    /\ Cardinality(asks) <= 1
    /\ \A k \in DOMAIN askLog : askLog[k].kind = "pending" => k = Len(askLog)
    /\ messages = <<Greeting>> \o TurnsOfAll(askLog)

\* C10: the transcript is append-only and in send order: every step keeps the earlier
\* transcript as a prefix, at most one send is in flight, and each non-blank send
\* appends one user turn followed, before any further user turn, by one bot turn with
\* the returned answer and its source labels in order (none if absent) on success, or
\* the fixed apology with no sources on failure.
C10_TranscriptAppendOnly ==
    [][IsPrefix(messages, messages') /\ TranscriptInSendOrder']_vars

\* two exchanges done: one answered with two source labels, one failed
C10_Witness ==
    /\ Len(askLog) = 2
    /\ askLog[1].kind = "answered"
    /\ askLog[1].res.data.sources = Val(<< <<"doc1">>, <<"doc2">> >>)
    /\ askLog[2].kind = "failed"
    /\ Len(messages) = 5
    /\ messages[3].sources = Val(<< <<"doc1">>, <<"doc2">> >>)
    /\ messages[5].text = ApologyText

-----------------------------------------------------------------------------
(* The loading flag of the chat flow *)

\* C11: the loading flag is true exactly while a question request is outstanding,
\* and whenever it is set it is eventually cleared, the request having succeeded or
\* failed.
C11_LoadingCleared ==
    /\ [](loading <=> asks # {})
    /\ loading ~> ~loading

\* a request failed and one succeeded, and the flag is clear after both
C11_Witness ==
    /\ Len(askLog) = 2
    /\ askLog[1].kind = "failed"
    /\ askLog[2].kind = "answered"
    /\ asks = {}
    /\ ~loading

-----------------------------------------------------------------------------
(* The selection while a submission is in progress *)

\* C12: while isUploading is true no user action changes the selection, so the files
\* a success response clears from the selection are exactly the files sent in that
\* request.
C12_SelectionFrozenWhileUploading ==
    [][/\ (isUploading /\ (FilesChange \/ Drop \/ RemoveFile \/ ClearAll)) => files' = files
       /\ \A c \in Live, response \in SuccessResponses :
             (c.state = "pending" /\ submitResolved(c, response)) => files = c.formData]_vars

=============================================================================
